---------------------------- MODULE Spec2Model ----------------------------
(***************************************************************************)
(* Scene ingestion of 4DGaussians: the dataset-type dispatcher and the     *)
(* format-specific readers of scene/dataset_readers.py, as a state machine *)
(* of one scene load after another on one scene directory.                 *)
(*                                                                         *)
(* A load is: the caller looks the dataset type up in                      *)
(* sceneLoadTypeCallbacks, the selected reader runs its steps, and the     *)
(* load ends "returned" (scene_info holds the SceneInfo) or "failed" (err  *)
(* holds the exception that left the reader).  The cached point-cloud file *)
(* of the scene directory is the only state kept across loads.             *)
(*                                                                         *)
(* Three more specifications share the variables: SpecConcurrent (two      *)
(* processes load one directory), SpecRender (render.py: render_set and    *)
(* multithread_write) and SpecDriver (batch_train.py).  pc, args and err   *)
(* are the position, the arguments and the exception of whichever program  *)
(* the specification runs; the variables of the other programs stay as     *)
(* they start.                                                             *)
(***************************************************************************)
EXTENDS Integers, Sequences, FiniteSets

VARIABLES
    pc,           \* position of the program: for a load "idle", a reader's step,
                  \* "returned", "failed"
    key,          \* the dataset-type identifier handed to the dispatcher
    reader,       \* the reader sceneLoadTypeCallbacks selected ("none": no reader)
    args,         \* the arguments of the reader call (of render_set, of the driver)
    input,        \* what the reader has parsed from the capture directory so far
    reads,        \* the parser calls made so far, in order, each with its outcome
    cams,         \* the reader's camera lists before the SceneInfo is built
    err,          \* the exception that ended the program ("none": no exception)
    scene_info,   \* the SceneInfo returned
    writes,       \* the files the load has written so far, in order (render.py:
                  \* the set of write_image runs so far)
    ply_file,     \* on disk: the cached point-cloud file of the scene directory
                  \* (sparse/0/points3D.ply, or points3D_multipleview.ply)
    stores,       \* how many times storePly converted the sparse points of the directory
    \* render.py, render_set and multithread_write:
    view_idx,     \* render_set's loop variable idx (-1: not bound yet)
    render_list,  \* the renderings of the batch being collected
    gt_list,      \* the ground-truth images of the batch being collected
    file_path_list, \* render_set's file_path: the image names of the batch being collected
    idx_offset,   \* render_set's idx_offset
    call,         \* the arguments and loop index of the multithread_write call in progress
    tasks,        \* the futures submitted to thread pools so far, in order
    disk,         \* on disk: the files under the model path, each with the image it holds
    \* batch_train.py:
    data,         \* on disk: the entries of ./data, as os.listdir lists them
    sequences,    \* the driver's sequences
    sequence,     \* the driver's loop variable
    commands      \* the commands handed to os.system so far, in order, each with its status

load_vars ==
    <<pc, key, reader, args, input, reads, cams, err, scene_info, writes, ply_file, stores>>

render_vars ==
    <<view_idx, render_list, gt_list, file_path_list, idx_offset, call, tasks, disk>>

driver_vars ==
    <<data, sequences, sequence, commands>>

vars ==
    <<load_vars, render_vars, driver_vars>>

(***************************************************************************)
(* Bounds of the model.                                                    *)
(***************************************************************************)
MaxCams == 16          \* images of a plain reconstructed scene: 0..MaxCams
MaxVaried == 4         \* images of a reconstructed scene with varied order and cameras
MaxStride == 3         \* hold-out strides 1..MaxStride, and the default llffhold
NumCameraIds == 2      \* COLMAP camera ids 1..NumCameraIds
MaxTrainFrames == 3    \* frames of transforms_train.json: 0..MaxTrainFrames
MaxTestFrames == 2     \* frames of transforms_test.json: 0..MaxTestFrames
MaxNumT == 3           \* frames per camera of a multi-rig load (num_t): 0..MaxNumT
MaxStartT == 1         \* first frame of a multi-rig load (start_t): 0..MaxStartT
NumVoxels == 2         \* grid points of the hull carving
MaxDataset == 2        \* cameras of a dataset object built outside this file

(***************************************************************************)
(* Python values.                                                          *)
(***************************************************************************)
None == <<>>
Some(x) == <<x>>

RECURSIVE GCD(_, _)
GCD(a, b) == IF b = 0 THEN a ELSE GCD(b, a % b)

Abs(x) == IF x < 0 THEN 0 - x ELSE x

\* Python's true division n / d of two numbers, as the exact quotient in lowest
\* terms with a positive denominator (d # 0: the caller raises on d = 0).
Div(n, d) ==
    LET g == GCD(Abs(n), Abs(d))
        s == IF d < 0 THEN 0 - 1 ELSE 1
    IN  [num |-> (s * n) \div g, den |-> (s * d) \div g]

\* x <= y on quotients
FracLeq(x, y) == x.num * y.den <= y.num * x.den

Zero == [num |-> 0, den |-> 1]
One == [num |-> 1, den |-> 1]

Range(s) == {s[i] : i \in DOMAIN s}

\* [c for idx, c in enumerate(s) if keep(idx)], idx counted from 0
\* for keep the set of the idx kept
Enumerate(s) == 0..(Len(s) - 1)

SelectIdx(s, keep) ==
    LET nth(k) == CHOOSE idx \in keep : Cardinality({j \in keep : j <= idx}) = k
    IN  [k \in 1..Cardinality(keep) |-> s[nth(k) + 1]]

(***************************************************************************)
(* Point-cloud store.                                                      *)
(***************************************************************************)
\* A float with a 24-bit significand holds every integer below 2^24 exactly;
\* above it the value is rounded to a multiple of 2 (ties to even), up to 2^25.
F4Exact == 16777216

f4(x) ==
    IF Abs(x) <= F4Exact THEN x
    ELSE LET a == Abs(x)
             lo == (a \div 2) * 2
             r == IF a = lo THEN a
                  ELSE IF (lo \div 2) % 2 = 0 THEN lo ELSE lo + 2
         IN  IF x < 0 THEN 0 - r ELSE r

NoFile == [exists |-> FALSE, valid |-> FALSE, vertex |-> <<>>]
CorruptFile == [exists |-> TRUE, valid |-> FALSE, vertex |-> <<>>]

\* the attributes kept as doubles
storePly_Double(xyz, rgb) ==
    [exists |-> TRUE, valid |-> TRUE,
     vertex |-> [i \in 1..Len(xyz) |->
                    [x |-> xyz[i][1], y |-> xyz[i][2], z |-> xyz[i][3],
                     nx |-> 0, ny |-> 0, nz |-> 0,
                     red |-> rgb[i][1], green |-> rgb[i][2], blue |-> rgb[i][3]]]]

\* storePly(path, xyz, rgb): one vertex per point, every attribute a 32-bit float,
\* normals zero.
storePly(xyz, rgb) ==
    [exists |-> TRUE, valid |-> TRUE,
     vertex |-> [i \in 1..Len(xyz) |->
                    [x |-> f4(xyz[i][1]), y |-> f4(xyz[i][2]), z |-> f4(xyz[i][3]),
                     nx |-> 0, ny |-> 0, nz |-> 0,
                     red |-> f4(rgb[i][1]), green |-> f4(rgb[i][2]),
                     blue |-> f4(rgb[i][3])]]]

\* fetchPly(path) of a readable file: BasicPointCloud(points, colors, normals)
fetchPly(file) ==
    [points |-> [i \in DOMAIN file.vertex |->
                    <<file.vertex[i].x, file.vertex[i].y, file.vertex[i].z>>],
     colors |-> [i \in DOMAIN file.vertex |->
                    <<Div(file.vertex[i].red, 255), Div(file.vertex[i].green, 255),
                      Div(file.vertex[i].blue, 255)>>],
     normals |-> [i \in DOMAIN file.vertex |->
                    <<file.vertex[i].nx, file.vertex[i].ny, file.vertex[i].nz>>]]

\* The sparse 3-D points of the reconstruction (points3D.bin / points3D.txt): xyz
\* as doubles, rgb as bytes.
Points3D ==
    { [xyz |-> <<<<0, 1, 2>>>>, rgb |-> <<<<0, 128, 255>>>>],
      [xyz |-> <<<<0, 1, 2>>, <<0 - 3, F4Exact + 1, F4Exact + 3>>>>,
       rgb |-> <<<<0, 128, 255>>, <<255, 255, 255>>>>] }

(***************************************************************************)
(* SceneInfo.                                                              *)
(***************************************************************************)
NoScene ==
    [point_cloud |-> None, train_cameras |-> <<>>, test_cameras |-> <<>>,
     video_cameras |-> <<>>, maxtime |-> Zero, ply_path |-> "none"]

SceneInfo(pcd, train, test, video, maxtime, ply_path) ==
    [point_cloud |-> pcd, train_cameras |-> train, test_cameras |-> test,
     video_cameras |-> video, maxtime |-> maxtime, ply_path |-> ply_path]

NoCams == [cam_infos |-> <<>>, train_cam_infos |-> <<>>, test_cam_infos |-> <<>>,
           video_cam_infos |-> <<>>]

getNerfppNormRaises_Never(cam_info) == FALSE

\* getNerfppNorm(cam_info) raises on an empty camera list: np.hstack([]) has
\* nothing to concatenate.  Otherwise it returns the centroid and the radius.
getNerfppNormRaises(cam_info) == Len(cam_info) = 0

(***************************************************************************)
(* Dispatcher.                                                             *)
(***************************************************************************)
sceneLoadTypeCallbacks ==
    [k \in {"Colmap", "Blender", "dynerf", "nerfies", "PanopticSports",
            "MultipleView", "Brics"} |->
        CASE k = "Colmap" -> "readColmapSceneInfo"
          [] k = "Blender" -> "readNerfSyntheticInfo"
          [] k = "dynerf" -> "readdynerfInfo"
          [] k = "nerfies" -> "readHyperDataInfos"
          [] k = "PanopticSports" -> "readPanopticSportsinfos"
          [] k = "MultipleView" -> "readMultipleViewinfos"
          [] k = "Brics" -> "readBricsSceneInfo"]

\* The identifiers a caller may hand in: the registered ones and some that are not.
DatasetTypes == DOMAIN sceneLoadTypeCallbacks \cup {"colmap", "LLFF", ""}

\* d.get(k, default) in the place of d[k]
Subscript_Default(d, k) ==
    IF k \in DOMAIN d THEN [raised |-> "none", value |-> d[k]]
    ELSE [raised |-> "none", value |-> d["Colmap"]]

\* sceneLoadTypeCallbacks[k]: a dict subscript, KeyError when k is no key.
Subscript(d, k) ==
    IF k \in DOMAIN d THEN [raised |-> "none", value |-> d[k]]
    ELSE [raised |-> "KeyError", value |-> "none"]

\* The caller's sceneLoadTypeCallbacks[key]
Lookup ==
    /\ pc = "idle"
    /\ LET r == Subscript(sceneLoadTypeCallbacks, key)
       IN  /\ reader' = r.value
           /\ err' = r.raised
           /\ pc' = IF r.raised = "none" THEN "call" ELSE "failed"
    /\ UNCHANGED <<render_vars, driver_vars,
                   key, args, input, reads, cams, scene_info, writes, ply_file, stores>>

(***************************************************************************)
(* COLMAP parsers (scene/colmap_loader.py) and what they return.           *)
(***************************************************************************)
CameraModels == {"SIMPLE_PINHOLE", "SIMPLE_RADIAL", "PINHOLE", "OPENCV", "FULL_OPENCV"}

\* camera-id -> intrinsics: every camera of one model, or camera 1 a PINHOLE and
\* the others of a model COLMAP writes for distorted images.
Intrinsics ==
    { [c \in 1..NumCameraIds |-> [id |-> c, model |-> m]] : m \in CameraModels }
    \cup { [c \in 1..NumCameraIds |->
              [id |-> c, model |-> IF c = 1 THEN "PINHOLE" ELSE "FULL_OPENCV"]] }

\* image-id -> extrinsics in the order the mapping enumerates them.  order: the
\* file names ascend, descend, or descend in pairs that share the part before the
\* first dot ("0007.png", "0007.jpg").  ids: every image of camera 1, or the images
\* cycle through the camera ids.
Extrinsics(n, order, ids) ==
    [i \in 1..n |->
        [name |-> CASE order = "asc" -> <<i, "png">>
                    [] order = "desc" -> <<n + 1 - i, "png">>
                    [] order = "pairs" ->
                         <<((n - i) \div 2) + 1, IF i % 2 = 1 THEN "png" ELSE "jpg">>,
         camera_id |-> IF ids = "shared" THEN 1 ELSE ((i - 1) % NumCameraIds) + 1]]

Reconstructions ==
    { [cam_extrinsics |-> Extrinsics(n, "asc", "shared"),
       cam_intrinsics |-> [c \in 1..NumCameraIds |-> [id |-> c, model |-> "PINHOLE"]]]
        : n \in 0..MaxCams }
    \cup
    { [cam_extrinsics |-> Extrinsics(n, o, ids), cam_intrinsics |-> intr]
        : n \in 0..MaxVaried, o \in {"asc", "desc", "pairs"},
          ids \in {"shared", "cycle"}, intr \in Intrinsics }

\* A parser call: the file it was given and whether it returned (ok) or raised.
Read(file, ok) == [file |-> file, ok |-> ok]

\* The exception a COLMAP parser raises on a file it cannot open or decode.
MissingReconstructionError == "MissingReconstructionError"

(***************************************************************************)
(* Reconstructed-scene reader.                                             *)
(***************************************************************************)
llffhold == 8
Strides == 1..MaxStride \cup {llffhold}

\* os.path.basename(extr.name).split(".")[0]
image_name(name) == name[1]

\* The branch of readColmapCameras an intrinsics model takes: TRUE when a field of
\* view is computed, FALSE when the assert fires.
ModelHandled_Any(model) == model = model

ModelHandled(model) ==
    \/ model \in {"SIMPLE_PINHOLE", "SIMPLE_RADIAL"}
    \/ model = "PINHOLE"
    \/ model = "OPENCV"

\* readColmapCameras: one CameraInfo per image, in the mapping's order; the loop
\* stops with AssertionError at the first image whose camera model is not handled.
readColmapCameras(cam_extrinsics, cam_intrinsics) ==
    LET n == Len(cam_extrinsics)
        intr(i) == cam_intrinsics[cam_extrinsics[i].camera_id]
        bad == {i \in 1..n : ~ModelHandled(intr(i).model)}
    IN  IF bad # {}
        THEN [raised |-> "AssertionError", value |-> <<>>]
        ELSE [raised |-> "none",
              value |-> [i \in 1..n |->
                            [uid |-> intr(i).id,
                             image_path |-> cam_extrinsics[i].name,
                             image_name |-> image_name(cam_extrinsics[i].name),
                             time |-> Div(i - 1, n)]]]

\* sorted(cam_infos_unsorted, key = lambda x : x.image_name): the cameras by
\* ascending image name, those of one name in their order in the list (stable).
Before(s, i, j) ==
    \/ s[i].image_name < s[j].image_name
    \/ s[i].image_name = s[j].image_name /\ i <= j

sorted_Unsorted(s) == s

sorted(s) ==
    LET at(k) == CHOOSE j \in DOMAIN s :
                    Cardinality({i \in DOMAIN s : Before(s, i, j)}) = k
    IN  [k \in DOMAIN s |-> s[at(k)]]

\* The hold-out split of readColmapSceneInfo
TestSplit_OffByOne(cam_infos, eval, hold) ==
    IF eval THEN SelectIdx(cam_infos, {idx \in Enumerate(cam_infos) : (idx + 1) % hold = 0}) ELSE <<>>

TrainSplit(cam_infos, eval, hold) ==
    IF eval THEN SelectIdx(cam_infos, {idx \in Enumerate(cam_infos) : idx % hold # 0}) ELSE cam_infos

TestSplit(cam_infos, eval, hold) ==
    IF eval THEN SelectIdx(cam_infos, {idx \in Enumerate(cam_infos) : idx % hold = 0}) ELSE <<>>

\* The text parsers in the try, the binary parsers in its except.
ColmapParseReads_TextFirst(ib, cb, it, ct) ==
    (IF it THEN <<Read("images.txt", TRUE), Read("cameras.txt", ct)>>
     ELSE <<Read("images.txt", FALSE)>>)
    \o (IF it /\ ct THEN <<>>
        ELSE IF ib THEN <<Read("images.bin", TRUE), Read("cameras.bin", cb)>>
        ELSE <<Read("images.bin", FALSE)>>)

\* Lines 160-169: the binary parsers in one try, the text parsers in its except.
\* ib, cb, it, ct: whether images.bin, cameras.bin, images.txt, cameras.txt parse.
ColmapParseReads(ib, cb, it, ct) ==
    (IF ib THEN <<Read("images.bin", TRUE), Read("cameras.bin", cb)>>
     ELSE <<Read("images.bin", FALSE)>>)
    \o (IF ib /\ cb THEN <<>>
        ELSE IF it THEN <<Read("images.txt", TRUE), Read("cameras.txt", ct)>>
        ELSE <<Read("images.txt", FALSE)>>)

ColmapParse ==
    /\ pc = "call"
    /\ reader = "readColmapSceneInfo"
    /\ \E eval \in BOOLEAN, hold \in Strides :
          args' = [eval |-> eval, llffhold |-> hold]
    /\ \E ib, cb, it, ct \in BOOLEAN :
          /\ reads' = ColmapParseReads(ib, cb, it, ct)
          /\ IF reads'[Len(reads')].ok
             THEN /\ \E rec \in Reconstructions : input' = rec
                  /\ pc' = "cameras"
                  /\ err' = "none"
             ELSE /\ input' = input
                  /\ pc' = "failed"
                  /\ err' = MissingReconstructionError
    /\ UNCHANGED <<render_vars, driver_vars,
                   key, reader, cams, scene_info, writes, ply_file, stores>>

\* Lines 171-182: the cameras, sorted by image name, split, and normalized.
ColmapCameras ==
    /\ pc = "cameras"
    /\ reader = "readColmapSceneInfo"
    /\ LET r == readColmapCameras(input.cam_extrinsics, input.cam_intrinsics)
           cam_infos == sorted(r.value)
           train == TrainSplit(cam_infos, args.eval, args.llffhold)
           test == TestSplit(cam_infos, args.eval, args.llffhold)
       IN  IF r.raised # "none"
           THEN /\ pc' = "failed"
                /\ err' = r.raised
                /\ cams' = cams
           ELSE /\ cams' = [cam_infos |-> cam_infos, train_cam_infos |-> train,
                            test_cam_infos |-> test, video_cam_infos |-> train]
                /\ IF getNerfppNormRaises(train)
                   THEN pc' = "failed" /\ err' = "ValueError"
                   ELSE pc' = "exists" /\ err' = "none"
    /\ UNCHANGED <<render_vars, driver_vars,
                   key, reader, args, input, reads, scene_info, writes, ply_file, stores>>

exists_Never(file) == FALSE

\* os.path.exists(ply_path)
exists(file) == file.exists

\* input with the parsed sparse points added
WithPoints(parsed, p) ==
    [f \in DOMAIN parsed \cup {"points3D"} |-> IF f = "points3D" THEN p ELSE parsed[f]]

\* The conversion of the sparse points, as the reconstructed-scene reader and the
\* multi-view reader do it: only when no cached file exists, from points3D.bin, or
\* from points3D.txt when the binary parser raises.  pb, pt: whether the two parse.
ConvertPoints(r, ply_path) ==
    /\ pc = "exists"
    /\ reader = r
    /\ IF exists(ply_file)
       THEN /\ pc' = "fetch"
            /\ UNCHANGED <<render_vars, driver_vars,
                           input, reads, err, writes, ply_file, stores>>
       ELSE \E pb, pt \in BOOLEAN :
               /\ reads' = reads \o <<Read("points3D.bin", pb)>>
                              \o (IF pb THEN <<>> ELSE <<Read("points3D.txt", pt)>>)
               /\ IF pb \/ pt
                  THEN /\ \E p \in Points3D :
                             /\ input' = WithPoints(input, p)
                             /\ ply_file' = storePly(p.xyz, p.rgb)
                       /\ writes' = writes \o <<ply_path>>
                       /\ stores' = stores + 1
                       /\ pc' = "fetch"
                       /\ err' = "none"
                  ELSE /\ pc' = "failed"
                       /\ err' = MissingReconstructionError
                       /\ UNCHANGED <<render_vars, driver_vars,
                                      input, writes, ply_file, stores>>
    /\ UNCHANGED <<render_vars, driver_vars, key, reader, args, cams, scene_info>>

\* The read of the cached file: any exception of fetchPly is swallowed and the
\* point cloud is None; then the SceneInfo is returned.
FetchPoints(r, ply_path) ==
    /\ pc = "fetch"
    /\ reader = r
    /\ LET pcd == IF ply_file.valid THEN Some(fetchPly(ply_file)) ELSE None
       IN  scene_info' = SceneInfo(pcd, cams.train_cam_infos, cams.test_cam_infos,
                                   cams.video_cam_infos, Zero, ply_path)
    /\ reads' = reads \o <<Read(ply_path, ply_file.valid)>>
    /\ pc' = "returned"
    /\ UNCHANGED <<render_vars, driver_vars,
                   key, reader, args, input, cams, err, writes, ply_file, stores>>

\* Lines 184-193
ColmapConvert == ConvertPoints("readColmapSceneInfo", "sparse/0/points3D.ply")

\* Lines 195-208
ColmapFetch == FetchPoints("readColmapSceneInfo", "sparse/0/points3D.ply")

readColmapSceneInfo == ColmapParse \/ ColmapCameras \/ ColmapConvert \/ ColmapFetch

(***************************************************************************)
(* Synthetic-transforms reader.                                            *)
(***************************************************************************)
\* The "time" values of the frames, counted in quarters (4 is the time 1.0).
RawTimes == {0 - 2, 0 - 1, 0, 1, 2, 3, 4}

\* The frames of one transforms file in file order: frame i is
\* {file_path: "./<dir>/r_<i>", time: ...}, the times ascending.
RECURSIVE Ascending(_)
Ascending(S) ==
    IF S = {} THEN <<>>
    ELSE LET m == CHOOSE x \in S : \A y \in S : x <= y
         IN  <<m>> \o Ascending(S \ {m})

Frames(dir, times) ==
    LET ts == Ascending(times)
    IN  [i \in 1..Len(ts) |-> [file_path |-> <<dir, i>>, time |-> ts[i]]]

TransformsFiles(dir, max) ==
    {Frames(dir, T) : T \in {T \in SUBSET RawTimes : Cardinality(T) <= max}}

\* time_line.sort() of a list without duplicates
sort(S) == Ascending(S)

max_First(s) == s[1]

\* max(time_line)
max(s) == CHOOSE x \in Range(s) : \A y \in Range(s) : y <= x

\* read_timeline: the times of the train and the test frames, deduplicated and
\* sorted, each mapped to time / max_time_float.
read_timeline(train_frames, test_frames) ==
    LET time_line == sort(Range([i \in DOMAIN train_frames |-> train_frames[i].time]
                                \o [i \in DOMAIN test_frames |-> test_frames[i].time]))
    IN  IF time_line = <<>>
        THEN [raised |-> "ValueError", mapper |-> <<>>, max_time |-> 0]
        ELSE IF max(time_line) = 0
        THEN [raised |-> "ZeroDivisionError", mapper |-> <<>>, max_time |-> 0]
        ELSE [raised |-> "none",
              mapper |-> [t \in Range(time_line) |-> Div(t, max(time_line))],
              max_time |-> max(time_line)]

\* Path(cam_name).stem
stem(file_path) == file_path[2]

\* readCamerasFromTransforms: one CameraInfo per frame, uid its index in the file
readCamerasFromTransforms(frames, mapper) ==
    [i \in DOMAIN frames |->
        [uid |-> i - 1,
         image_path |-> frames[i].file_path,
         image_name |-> stem(frames[i].file_path),
         time |-> mapper[frames[i].time]]]

\* torch.linspace(start, end, steps)[i], i from 0, as a quotient
linspace(start, end, steps, i) == Div(start * (steps - 1) + (end - start) * i, steps - 1)

\* x / d for a quotient x and a number d # 0
FracDiv(x, d) == Div(x.num, x.den * d)

NumRenderPoses == 160

\* render_times = torch.linspace(0, maxtime, 160), and time / maxtime of each, for
\* every maxtime read_timeline can return
render_times ==
    [maxtime \in RawTimes \ {0} |->
        [i \in 1..NumRenderPoses |->
            FracDiv(linspace(0, maxtime, NumRenderPoses, i - 1), maxtime)]]

\* generateCamerasFromTransforms: the orbit of 160 poses, pose idx at the time
\* render_times[idx] / maxtime.  The template's first frame gives the image; with
\* no frame the name image is unbound when it is read.
generateCamerasFromTransforms(template_frames, maxtime) ==
    IF template_frames = <<>>
    THEN [raised |-> "UnboundLocalError", value |-> <<>>]
    ELSE [raised |-> "none",
          value |-> [i \in 1..NumRenderPoses |->
                        [uid |-> i - 1, image_path |-> None, image_name |-> None,
                         time |-> render_times[maxtime][i]]]]

num_pts == 2000

\* A readable fused.ply, as storePly writes one
FusedPly == storePly(<<<<0, 1, 2>>>>, <<<<0, 128, 255>>>>)

\* The random point cloud of num_pts points inside the cube of the Blender scenes
RandomPointCloud == [random |-> TRUE, num_pts |-> num_pts]

\* Lines 330-332: without evaluation mode the test cameras join the train cameras
BlenderTestSplit_Keep(train_cam_infos, test_cam_infos, eval) == test_cam_infos

BlenderTrainSplit(train_cam_infos, test_cam_infos, eval) ==
    IF ~eval THEN train_cam_infos \o test_cam_infos ELSE train_cam_infos

BlenderTestSplit(train_cam_infos, test_cam_infos, eval) ==
    IF ~eval THEN <<>> ELSE test_cam_infos

\* Lines 322-323: the arguments, the two transforms files and the time mapper
BlenderTimeline ==
    /\ pc = "call"
    /\ reader = "readNerfSyntheticInfo"
    /\ \E eval \in BOOLEAN : args' = [eval |-> eval]
    /\ \E train \in TransformsFiles("train", MaxTrainFrames),
          test \in TransformsFiles("test", MaxTestFrames) :
          LET r == read_timeline(train, test)
          IN  /\ input' = [train_frames |-> train, test_frames |-> test,
                           timestamp_mapper |-> r.mapper, max_time |-> r.max_time]
              /\ err' = r.raised
              /\ pc' = IF r.raised = "none" THEN "transforms" ELSE "failed"
    /\ reads' = <<Read("transforms_train.json", TRUE), Read("transforms_test.json", TRUE)>>
    /\ UNCHANGED <<render_vars, driver_vars,
                   key, reader, cams, scene_info, writes, ply_file, stores>>

\* Lines 324-361: the cameras of the two files, the video orbit, the split, the
\* normalization and the point cloud.  fused: fused.ply is absent, readable or not
\* readable.
BlenderCameras ==
    /\ pc = "transforms"
    /\ reader = "readNerfSyntheticInfo"
    /\ LET train_file == readCamerasFromTransforms(input.train_frames, input.timestamp_mapper)
           test_file == readCamerasFromTransforms(input.test_frames, input.timestamp_mapper)
           video == generateCamerasFromTransforms(input.train_frames, input.max_time)
           train == BlenderTrainSplit(train_file, test_file, args.eval)
           test == BlenderTestSplit(train_file, test_file, args.eval)
       IN  IF video.raised # "none"
           THEN /\ pc' = "failed"
                /\ err' = video.raised
                /\ UNCHANGED <<render_vars, driver_vars, cams, scene_info, reads>>
           ELSE /\ cams' = [cam_infos |-> train_file \o test_file,
                            train_cam_infos |-> train, test_cam_infos |-> test,
                            video_cam_infos |-> video.value]
                /\ IF getNerfppNormRaises(train)
                   THEN /\ pc' = "failed"
                        /\ err' = "ValueError"
                        /\ UNCHANGED <<render_vars, driver_vars, scene_info, reads>>
                   ELSE \E fused \in {"absent", "readable", "corrupt"} :
                           /\ reads' = IF fused = "absent" THEN reads
                                       ELSE reads \o <<Read("fused.ply", fused = "readable")>>
                           /\ IF fused = "corrupt"
                              THEN /\ pc' = "failed"
                                   /\ err' = "CorruptPointCloudError"
                                   /\ UNCHANGED scene_info
                              ELSE /\ pc' = "returned"
                                   /\ err' = "none"
                                   /\ scene_info' =
                                        SceneInfo(
                                          IF fused = "absent"
                                          THEN Some(RandomPointCloud)
                                          ELSE Some(fetchPly(FusedPly)),
                                          train, test, video.value,
                                          Div(input.max_time, 1), "fused.ply")
    /\ UNCHANGED <<render_vars, driver_vars,
                   key, reader, args, input, writes, ply_file, stores>>

readNerfSyntheticInfo == BlenderTimeline \/ BlenderCameras

(***************************************************************************)
(* Multi-rig ("Brics") reader.                                             *)
(***************************************************************************)
\* A rig is the list of the camera names of one transforms_<split>.json, one entry
\* per camera; the name cam<NN> is the number NN.
vis_cam_order == <<1, 4, 9, 15, 23, 28, 32, 34, 35, 36, 37>> \o <<1, 4>>

RigSize == 38

TrainRigs ==
    { <<>>, <<0, 1>>, SubSeq(vis_cam_order, 1, 11), [i \in 1..RigSize |-> i - 1] }

TestRigs == { <<>>, <<2>> }

\* readBrics: one CameraInfo per camera and frame j of start_t..start_t+num_t-1,
\* the uid counted up, the time j - start_t; camera_dict keeps each camera's
\* CameraInfo of timestamp 0.  frames[0] raises IndexError on an empty file.
readBrics(rig, start_t, num_t) ==
    IF rig = <<>>
    THEN [raised |-> "IndexError", cam_infos |-> <<>>, camera_dict |-> <<>>]
    ELSE LET info(k) ==
                 LET cam_idx == ((k - 1) \div num_t) + 1
                     j == start_t + ((k - 1) % num_t)
                 IN  [uid |-> k - 1,
                      image_path |-> <<"frames_1", rig[cam_idx], j>>,
                      image_name |-> <<rig[cam_idx], j>>,
                      time |-> Div(j - start_t, 1)]
             cam_infos == [k \in 1..(Len(rig) * num_t) |-> info(k)]
         IN  [raised |-> "none",
              cam_infos |-> cam_infos,
              camera_dict |->
                  [name \in {cam_infos[k].image_name[1] :
                                k \in {k \in DOMAIN cam_infos : cam_infos[k].time = Zero}} |->
                      LET ks == {k \in DOMAIN cam_infos :
                                    /\ cam_infos[k].time = Zero
                                    /\ cam_infos[k].image_name[1] = name}
                      IN  cam_infos[CHOOSE k \in ks : \A l \in ks : l <= k]]]

\* The cameras whose first-frame alpha mask covers the projection of a grid point:
\* none, or the first 14, the first 15 or all of the rig's cameras.
HitLevels(rig) == {0, 14, 15, Len(rig)} \cap 0..Len(rig)
MaskHits(rig) ==
    [1..NumVoxels -> {{rig[i] : i \in 1..k} : k \in HitLevels(rig)}]

HullThreshold == 15

\* every train camera counted, whatever its time
HullCarve_AllFrames(train_cam_infos, hits) ==
    LET grid_counter(v) ==
            1 + Cardinality({i \in DOMAIN train_cam_infos :
                                train_cam_infos[i].image_name[1] \in hits[v]})
    IN  SelectIdx([v \in 1..NumVoxels |-> v],
                  {idx \in 0..(NumVoxels - 1) : grid_counter(idx + 1) > HullThreshold})

\* Lines 723-769: grid_counter starts at 1 and counts, over the train cameras of
\* time 0, those whose mask the grid point projects into; a point is kept when
\* its counter exceeds 15.
HullCarve(train_cam_infos, hits) ==
    LET first_frame_cameras ==
            SelectIdx(train_cam_infos,
                      {idx \in Enumerate(train_cam_infos) :
                          train_cam_infos[idx + 1].time = Zero})
        grid_counter(v) ==
            1 + Cardinality({i \in DOMAIN first_frame_cameras :
                                first_frame_cameras[i].image_name[1] \in hits[v]})
    IN  SelectIdx([v \in 1..NumVoxels |-> v],
                  {idx \in 0..(NumVoxels - 1) : grid_counter(idx + 1) > HullThreshold})

\* BasicPointCloud(points=xyz, colors=random, normals=zeros)
HullPointCloud(xyz) == [points |-> xyz, random |-> TRUE, num_pts |-> Len(xyz)]

n_interp == 50

\* generate_interpolated_path(poses, n_interp, ...): n_interp poses per pair of
\* consecutive key poses
generate_interpolated_path(poses) ==
    [i \in 1..(n_interp * (Len(poses) - 1)) |-> i]

\* timesteps + timesteps
timesteps_rev_Restart(num_t) ==
    [i \in 1..(2 * num_t) |-> (i - 1) % num_t]

\* timesteps + timesteps[::-1]
timesteps_rev(num_t) ==
    [i \in 1..(2 * num_t) |-> IF i <= num_t THEN i - 1 ELSE 2 * num_t - i]

\* Lines 818-837, for every num_t >= 1: video camera _idx at the time
\* timesteps_rev[_idx % len(timesteps_rev)]
video_cameras ==
    [num_t \in 1..(MaxNumT + 1) |->
        LET visualization_poses == generate_interpolated_path(vis_cam_order)
        IN  [i \in DOMAIN visualization_poses |->
                [uid |-> i - 1, image_path |-> None, image_name |-> i - 1,
                 time |-> Div(timesteps_rev(num_t)[((i - 1) % (2 * num_t)) + 1], 1)]]]

\* Lines 806-837: no video camera without create_video_cams; KeyError when a
\* camera of vis_cam_order has no first frame in the train split.
BricsVideoCameras(create_video_cams, camera_dict, num_t) ==
    IF ~create_video_cams THEN [raised |-> "none", value |-> <<>>]
    ELSE IF \E i \in DOMAIN vis_cam_order : vis_cam_order[i] \notin DOMAIN camera_dict
    THEN [raised |-> "KeyError", value |-> <<>>]
    ELSE [raised |-> "none", value |-> video_cameras[num_t]]

readBricsSceneInfo ==
    /\ pc = "call"
    /\ reader = "readBricsSceneInfo"
    /\ \E start_t \in 0..MaxStartT, num_t \in 0..MaxNumT, create_video_cams \in BOOLEAN,
          init \in {"hull", "random"}, train_rig \in TrainRigs, test_rig \in TestRigs :
          LET train == readBrics(train_rig, start_t, num_t)
              test == readBrics(test_rig, start_t, num_t)
          IN  /\ args' = [start_t |-> start_t, num_t |-> num_t, init |-> init,
                          create_video_cams |-> create_video_cams]
              /\ reads' = <<Read("transforms_train.json", TRUE)>>
                            \o (IF train.raised = "none"
                                THEN <<Read("transforms_test.json", TRUE)>> ELSE <<>>)
              /\ IF train.raised # "none" \/ test.raised # "none" \/ init # "hull"
                 THEN /\ pc' = "failed"
                      /\ err' = IF train.raised # "none" THEN train.raised
                                ELSE IF test.raised # "none" THEN test.raised
                                ELSE "NotImplementedError"
                      /\ input' = [train_rig |-> train_rig, test_rig |-> test_rig]
                      /\ UNCHANGED <<render_vars, driver_vars,
                                     cams, scene_info, writes>>
                 ELSE \E hits \in MaskHits(train_rig) :
                      LET xyz == HullCarve(train.cam_infos, hits)
                          video == BricsVideoCameras(create_video_cams,
                                                     train.camera_dict, num_t)
                      IN  /\ input' = [train_rig |-> train_rig, test_rig |-> test_rig,
                                       hits |-> hits]
                          /\ writes' = (IF num_t > 0 THEN <<"./cam_img.png">> ELSE <<>>)
                                          \o <<"tmp.ply">>
                          /\ cams' = [cam_infos |-> train.cam_infos \o test.cam_infos,
                                      train_cam_infos |-> train.cam_infos,
                                      test_cam_infos |-> test.cam_infos,
                                      video_cam_infos |-> video.value]
                          /\ IF video.raised # "none"
                             THEN pc' = "failed" /\ err' = video.raised
                                  /\ UNCHANGED scene_info
                             ELSE IF getNerfppNormRaises(train.cam_infos)
                             THEN pc' = "failed" /\ err' = "ValueError"
                                  /\ UNCHANGED scene_info
                             ELSE /\ pc' = "returned"
                                  /\ err' = "none"
                                  /\ scene_info' =
                                       SceneInfo(Some(HullPointCloud(xyz)),
                                                 train.cam_infos, test.cam_infos,
                                                 video.value, Div(num_t, 1), "tmp.ply")
    /\ UNCHANGED <<render_vars, driver_vars, key, reader, ply_file, stores>>

(***************************************************************************)
(* The readers built on dataset objects of other files.                    *)
(***************************************************************************)
\* A dataset object (Neural3D_NDC_Dataset, Load_hyper_data, multipleview_dataset)
\* as the list of its cameras, their times spread over [0, 1).
Datasets ==
    { [i \in 1..n |-> [uid |-> i - 1, image_path |-> None, image_name |-> i - 1,
                       time |-> Div(i - 1, n)]] : n \in 0..MaxDataset }

\* format_infos(dataset, "train"): dataset[0][0] raises IndexError on an empty
\* dataset; one CameraInfo per index, its time dataset.image_times[idx].
format_infos(dataset) ==
    IF dataset = <<>> THEN [raised |-> "IndexError", value |-> <<>>]
    ELSE [raised |-> "none",
          value |-> [i \in DOMAIN dataset |->
                        [uid |-> i - 1, image_path |-> None, image_name |-> i - 1,
                         time |-> dataset[i].time]]]

\* format_render_poses(poses, data_infos): pose idx at the time idx / len(poses)
format_render_poses(len_poses, data_infos) ==
    IF data_infos = <<>> THEN [raised |-> "IndexError", value |-> <<>>]
    ELSE [raised |-> "none",
          value |-> [i \in 1..len_poses |->
                        [uid |-> i - 1, image_path |-> None, image_name |-> i - 1,
                         time |-> Div(i - 1, len_poses)]]]

\* The exception fetchPly raises on a file that is missing or no vertex file.
CorruptPointCloudError == "CorruptPointCloudError"

dynerf_maxtime == 300

\* Lines 450-491
readdynerfInfo ==
    /\ pc = "call"
    /\ reader = "readdynerfInfo"
    /\ \E train_dataset \in Datasets, test_dataset \in Datasets,
          val_poses \in 0..MaxDataset, readable \in BOOLEAN :
          LET train == format_infos(train_dataset)
              val == format_render_poses(val_poses, test_dataset)
              raised == IF train.raised # "none" THEN train.raised
                        ELSE IF val.raised # "none" THEN val.raised
                        ELSE IF getNerfppNormRaises(train.value) THEN "ValueError"
                        ELSE IF ~readable THEN CorruptPointCloudError
                        ELSE "none"
          IN  /\ input' = [train_dataset |-> train_dataset, test_dataset |-> test_dataset,
                           val_poses |-> val_poses]
              /\ err' = raised
              /\ IF raised # "none"
                 THEN pc' = "failed" /\ UNCHANGED <<render_vars, driver_vars,
                                                    cams, scene_info, reads>>
                 ELSE /\ pc' = "returned"
                      /\ reads' = <<Read("points3D_downsample2.ply", TRUE)>>
                      /\ cams' = [cam_infos |-> train.value, train_cam_infos |-> train.value,
                                  test_cam_infos |-> test_dataset,
                                  video_cam_infos |-> val.value]
                      /\ scene_info' = SceneInfo(Some(fetchPly(FusedPly)), train_dataset,
                                                 test_dataset, val.value,
                                                 Div(dynerf_maxtime, 1),
                                                 "points3D_downsample2.ply")
    /\ UNCHANGED <<render_vars, driver_vars,
                   key, reader, args, writes, ply_file, stores>>

\* Lines 382-409
readHyperDataInfos ==
    /\ pc = "call"
    /\ reader = "readHyperDataInfos"
    /\ \E train_cam_infos \in Datasets, test_cam_infos \in Datasets, readable \in BOOLEAN :
          LET raised == IF ~readable THEN CorruptPointCloudError
                        ELSE IF getNerfppNormRaises(train_cam_infos) THEN "ValueError"
                        ELSE "none"
          IN  /\ input' = [train_dataset |-> train_cam_infos,
                           test_dataset |-> test_cam_infos]
              /\ err' = raised
              /\ reads' = <<Read("points3D_downsample2.ply", readable)>>
              /\ IF raised # "none"
                 THEN pc' = "failed" /\ UNCHANGED <<render_vars, driver_vars,
                                                    cams, scene_info, writes>>
                 ELSE /\ pc' = "returned"
                      /\ writes' = <<"output.png">>
                      /\ cams' = [cam_infos |-> train_cam_infos,
                                  train_cam_infos |-> train_cam_infos,
                                  test_cam_infos |-> test_cam_infos,
                                  video_cam_infos |-> test_cam_infos]
                      /\ scene_info' = SceneInfo(Some(fetchPly(FusedPly)), train_cam_infos,
                                                 test_cam_infos, test_cam_infos,
                                                 Div(Len(train_cam_infos), 1),
                                                 "points3D_downsample2.ply")
    /\ UNCHANGED <<render_vars, driver_vars, key, reader, args, ply_file, stores>>

\* readPanopticmeta: per timestep index and camera one entry with the time
\* index / len(fn); w2c[0] raises IndexError when the meta file has no timestep.
readPanopticmeta(fn, cam_ids) ==
    IF fn = 0 THEN [raised |-> "IndexError", value |-> <<>>, max_time |-> 0]
    ELSE [raised |-> "none",
          value |-> [k \in 1..(fn * cam_ids) |->
                        [uid |-> (k - 1) % cam_ids, image_path |-> "ims",
                         image_name |-> k - 1,
                         time |-> Div((k - 1) \div cam_ids, fn)]],
          max_time |-> fn]

\* Lines 575-603
readPanopticSportsinfos ==
    /\ pc = "call"
    /\ reader = "readPanopticSportsinfos"
    /\ \E train_fn \in 0..MaxDataset, test_fn \in 0..MaxDataset, cam_ids \in 1..MaxDataset :
          LET train == readPanopticmeta(train_fn, cam_ids)
              test == readPanopticmeta(test_fn, cam_ids)
              raised == IF train.raised # "none" THEN train.raised ELSE test.raised
          IN  /\ input' = [train_fn |-> train_fn, test_fn |-> test_fn, cam_ids |-> cam_ids]
              /\ err' = raised
              /\ reads' = <<Read("train_meta.json", TRUE)>>
                            \o (IF train.raised = "none"
                                THEN <<Read("test_meta.json", TRUE)>> ELSE <<>>)
              /\ IF raised # "none"
                 THEN pc' = "failed" /\ UNCHANGED <<render_vars, driver_vars,
                                                    cams, scene_info, writes>>
                 ELSE /\ pc' = "returned"
                      /\ writes' = <<"pointd3D.ply">>
                      /\ cams' = [cam_infos |-> train.value \o test.value,
                                  train_cam_infos |-> train.value,
                                  test_cam_infos |-> test.value,
                                  video_cam_infos |-> test.value]
                      /\ scene_info' = SceneInfo(Some(fetchPly(FusedPly)), train.value,
                                                 test.value, test.value,
                                                 Div(train.max_time, 1), "pointd3D.ply")
    /\ UNCHANGED <<render_vars, driver_vars, key, reader, args, ply_file, stores>>

\* Lines 605-616: the binary parsers only, then the two dataset objects
MultipleViewParse ==
    /\ pc = "call"
    /\ reader = "readMultipleViewinfos"
    /\ \E ib, cb \in BOOLEAN :
          /\ reads' = <<Read("images.bin", ib)>>
                        \o (IF ib THEN <<Read("cameras.bin", cb)>> ELSE <<>>)
          /\ IF ~(ib /\ cb)
             THEN /\ pc' = "failed"
                  /\ err' = MissingReconstructionError
                  /\ UNCHANGED <<render_vars, driver_vars, input, cams>>
             ELSE \E train_cam_infos \in Datasets, test_cam_infos \in Datasets,
                     video_cam_infos \in Datasets :
                     LET train == format_infos(train_cam_infos)
                     IN  /\ input' = [train_dataset |-> train_cam_infos,
                                      test_dataset |-> test_cam_infos]
                         /\ cams' = [cam_infos |-> train.value,
                                     train_cam_infos |-> train_cam_infos,
                                     test_cam_infos |-> test_cam_infos,
                                     video_cam_infos |-> video_cam_infos]
                         /\ IF train.raised # "none"
                            THEN pc' = "failed" /\ err' = train.raised
                            ELSE IF getNerfppNormRaises(train.value)
                            THEN pc' = "failed" /\ err' = "ValueError"
                            ELSE pc' = "exists" /\ err' = "none"
    /\ UNCHANGED <<render_vars, driver_vars,
                   key, reader, args, scene_info, writes, ply_file, stores>>

\* Lines 618-627
MultipleViewConvert == ConvertPoints("readMultipleViewinfos", "points3D_multipleview.ply")

\* Lines 629-642
MultipleViewFetch == FetchPoints("readMultipleViewinfos", "points3D_multipleview.ply")

readMultipleViewinfos == MultipleViewParse \/ MultipleViewConvert \/ MultipleViewFetch

(***************************************************************************)
(* The loads of one scene directory.                                       *)
(***************************************************************************)
NoArgs == [eval |-> FALSE]
NoInput == [cam_extrinsics |-> <<>>]
NoCall ==
    [executor |-> 0, image_list |-> <<>>, path |-> "", file_names |-> <<>>,
     idx_offset |-> 0, index |-> 0, site |-> 0]

\* No render_set call has been made.
NoRender ==
    /\ view_idx = -1
    /\ render_list = <<>>
    /\ gt_list = <<>>
    /\ file_path_list = <<>>
    /\ idx_offset = 0
    /\ call = NoCall
    /\ tasks = <<>>
    /\ disk = <<>>

\* The batch driver has not been started.
NoDriver ==
    /\ data = <<>>
    /\ sequences = <<>>
    /\ sequence = None
    /\ commands = <<>>

\* The caller is done with the load; the next one starts from the disk as it is.
NextLoad ==
    /\ pc \in {"returned", "failed"}
    /\ pc' = "idle"
    /\ reader' = "none"
    /\ args' = NoArgs
    /\ input' = NoInput
    /\ reads' = <<>>
    /\ cams' = NoCams
    /\ err' = "none"
    /\ scene_info' = NoScene
    /\ writes' = <<>>
    /\ UNCHANGED <<render_vars, driver_vars, key, ply_file, stores>>

Init ==
    /\ pc = "idle"
    /\ key \in DatasetTypes
    /\ reader = "none"
    /\ args = NoArgs
    /\ input = NoInput
    /\ reads = <<>>
    /\ cams = NoCams
    /\ err = "none"
    /\ scene_info = NoScene
    /\ writes = <<>>
    /\ ply_file \in (IF key \in {"Colmap", "MultipleView"} THEN {NoFile, CorruptFile}
                     ELSE {NoFile})
    /\ stores = 0
    /\ NoRender
    /\ NoDriver

Next ==
    \/ Lookup
    \/ readColmapSceneInfo
    \/ readNerfSyntheticInfo
    \/ readBricsSceneInfo
    \/ readdynerfInfo
    \/ readHyperDataInfos
    \/ readPanopticSportsinfos
    \/ readMultipleViewinfos
    \/ NextLoad

Spec == Init /\ [][Next]_vars

(***************************************************************************)
(* Concurrent loads of one reconstructed-scene directory: every process    *)
(* runs lines 184-208 of readColmapSceneInfo on the same capture; pc,      *)
(* reads, err and scene_info hold one value per process, the cached file   *)
(* is shared.                                                              *)
(***************************************************************************)
NumProcs == 2
Procs == 1..NumProcs

\* The captures of the concurrent loads: two images of one PINHOLE camera and
\* the sparse points.
Captures ==
    { WithPoints([cam_extrinsics |-> Extrinsics(2, "asc", "shared"),
                  cam_intrinsics |-> [c \in 1..NumCameraIds |->
                                         [id |-> c, model |-> "PINHOLE"]]], p)
        : p \in Points3D }

\* Line 187: os.path.exists(ply_path)
ProcExists(p) ==
    /\ pc[p] = "exists"
    /\ pc' = [pc EXCEPT ![p] = IF exists(ply_file) THEN "fetch" ELSE "convert"]
    /\ UNCHANGED <<render_vars, driver_vars,
                   key, reader, args, input, reads, cams, err, scene_info, writes,
                   ply_file, stores>>

\* Lines 188-192: the sparse points, from points3D.bin or from points3D.txt
ProcParse(p) ==
    /\ pc[p] = "convert"
    /\ \E pb, pt \in BOOLEAN :
          /\ reads' = [reads EXCEPT ![p] = @ \o <<Read("points3D.bin", pb)>>
                           \o (IF pb THEN <<>> ELSE <<Read("points3D.txt", pt)>>)]
          /\ pc' = [pc EXCEPT ![p] = IF pb \/ pt THEN "store" ELSE "failed"]
          /\ err' = [err EXCEPT ![p] = IF pb \/ pt THEN "none"
                                       ELSE MissingReconstructionError]
    /\ UNCHANGED <<render_vars, driver_vars,
                   key, reader, args, input, cams, scene_info, writes, ply_file, stores>>

\* Line 157, ply_data.write(path) opening the file: it exists and is empty.
ProcOpen(p) ==
    /\ pc[p] = "store"
    /\ pc' = [pc EXCEPT ![p] = "write"]
    /\ ply_file' = CorruptFile
    /\ writes' = writes \o <<<<p, "open">>>>
    /\ UNCHANGED <<render_vars, driver_vars,
                   key, reader, args, input, reads, cams, err, scene_info, stores>>

\* Line 157, ply_data.write(path) done.  The file holds the vertices unless
\* another process has truncated it and not yet written its own to the end.
ProcWrite(p) ==
    /\ pc[p] = "write"
    /\ pc' = [pc EXCEPT ![p] = "fetch"]
    /\ \E file \in {storePly(input.points3D.xyz, input.points3D.rgb)}
                      \cup (IF \E q \in Procs \ {p} : pc[q] = "write"
                            THEN {CorruptFile} ELSE {}) :
          ply_file' = file
    /\ writes' = writes \o <<<<p, "close">>>>
    /\ stores' = stores + 1
    /\ UNCHANGED <<render_vars, driver_vars,
                   key, reader, args, input, reads, cams, err, scene_info>>

\* Lines 195-208: fetchPly in its try, and the SceneInfo returned
ProcFetch(p) ==
    /\ pc[p] = "fetch"
    /\ LET pcd == IF ply_file.valid THEN Some(fetchPly(ply_file)) ELSE None
       IN  scene_info' = [scene_info EXCEPT ![p] =
                             SceneInfo(pcd, cams.train_cam_infos, cams.test_cam_infos,
                                       cams.video_cam_infos, Zero,
                                       "sparse/0/points3D.ply")]
    /\ reads' = [reads EXCEPT ![p] = @ \o <<Read("sparse/0/points3D.ply", ply_file.valid)>>]
    /\ pc' = [pc EXCEPT ![p] = "returned"]
    /\ UNCHANGED <<render_vars, driver_vars,
                   key, reader, args, input, cams, err, writes, ply_file, stores>>

InitConcurrent ==
    /\ key = "Colmap"
    /\ reader = "readColmapSceneInfo"
    /\ \E eval \in BOOLEAN : args = [eval |-> eval, llffhold |-> llffhold]
    /\ input \in Captures
    /\ LET cam_infos == sorted(readColmapCameras(input.cam_extrinsics,
                                                 input.cam_intrinsics).value)
           train == TrainSplit(cam_infos, args.eval, args.llffhold)
       IN  cams = [cam_infos |-> cam_infos, train_cam_infos |-> train,
                   test_cam_infos |-> TestSplit(cam_infos, args.eval, args.llffhold),
                   video_cam_infos |-> train]
    /\ pc = [p \in Procs |-> "exists"]
    /\ reads = [p \in Procs |-> <<>>]
    /\ err = [p \in Procs |-> "none"]
    /\ scene_info = [p \in Procs |-> NoScene]
    /\ writes = <<>>
    /\ ply_file = NoFile
    /\ stores = 0
    /\ NoRender
    /\ NoDriver

NextConcurrent ==
    \E p \in Procs :
        \/ ProcExists(p)
        \/ ProcParse(p)
        \/ ProcOpen(p)
        \/ ProcWrite(p)
        \/ ProcFetch(p)

SpecConcurrent == InitConcurrent /\ [][NextConcurrent]_vars

(***************************************************************************)
(* render.py: render_set renders the views of one split and writes the     *)
(* images in batches, each list of a batch through one multithread_write   *)
(* call and its thread pool.  pc is the position of the main thread: in    *)
(* render_set "loop" (line 63), "batch" (line 92) and "final" (line 107),  *)
(* in multithread_write "submit" (lines 42-44) and "check" (lines 45-47);  *)
(* the worker threads run write_image for the futures of tasks.  writes is  *)
(* the set of the write_image runs so far, each with its thread and its    *)
(* outcome: the runs of one pool are not ordered.                          *)
(***************************************************************************)
MaxViews == 4          \* views of the split: 0..MaxViews
MaxBatchSize == 3      \* --batch_size: 1..MaxBatchSize

\* No scene is being loaded: what is left of the loader's state.
load_rest == <<key, reader, input, reads, cams, scene_info, ply_file, stores>>

NoLoad ==
    /\ key = "Colmap"
    /\ reader = "none"
    /\ input = NoInput
    /\ reads = <<>>
    /\ cams = NoCams
    /\ scene_info = NoScene
    /\ ply_file = NoFile
    /\ stores = 0

\* scene.dataset_type; every value but "PanopticSports" takes the same branches.
CamTypes == {"PanopticSports", "Brics"}

\* Line 36: '{0:05d}'.format(count), for 0 <= count < 100000
Digit == <<"0", "1", "2", "3", "4", "5", "6", "7", "8", "9">>
Format05d(count) ==
    Digit[((count \div 10000) % 10) + 1] \o Digit[((count \div 1000) % 10) + 1]
        \o Digit[((count \div 100) % 10) + 1] \o Digit[((count \div 10) % 10) + 1]
        \o Digit[(count % 10) + 1]

\* The image name of view number i of the split: one name per view.
image_name_of(i) == "cam00/" \o Format05d(i)

\* The views render_set is given: n views, each with or without its original
\* image; a PanopticSports view is a dict with its 'image'.
Views(cam_type) ==
    UNION { { [k \in 1..n |->
                 [image_name |-> image_name_of(k - 1),
                  original_image |-> IF has[k] THEN Some(<<"gt", k - 1>>) ELSE None,
                  image |-> <<"gt", k - 1>>]]
              : has \in (IF cam_type = "PanopticSports" THEN {[k \in 1..n |-> TRUE]}
                         ELSE [1..n -> BOOLEAN]) }
            : n \in 0..MaxViews }

\* os.path.join: the directory and the file in it
Join(path, file) == <<path, file>>

\* Lines 52-53 and 114, under model_path/name/ours_<iteration>
render_path == "renders"
gts_path == "gt"
video_rgb == Join(".", "video_rgb.mp4")

\* Line 70: the rendering of view number i
rendering(i) == <<"render", i>>

\* Lines 72 and 114: the frames of video_rgb.mp4
render_images == [k \in 1..(view_idx + 1) |-> rendering(k - 1)]

\* Lines 33-36: the file write_image saves to
ImageFile(count, path, file_name) ==
    IF file_name # None THEN Join(path, file_name[1] \o ".png")
    ELSE Join(path, Format05d(count) \o ".png")

\* A file written: the disk holds it with its new content.
Put(d, file, image) ==
    [f \in (DOMAIN d) \cup {file} |-> IF f = file THEN image ELSE d[f]]

\* Lines 32-39: the outcomes of torchvision.utils.save_image.  It raises on an
\* image that is None, and it may raise on any image (the disk); write_image
\* turns the exception into the status False.
Saved(image) == IF image = None THEN {FALSE} ELSE BOOLEAN

\* Line 43: the future of executor.submit(write_image, image, index + idx_offset,
\* path, file_name); its result is None until write_image has run.
Future(c, index) ==
    [executor |-> c.executor,
     index |-> index,
     image |-> c.image_list[index + 1],
     count |-> index + c.idx_offset,
     path |-> c.path,
     file_name |-> IF Len(c.file_names) > 0 THEN Some(c.file_names[index + 1]) ELSE None,
     result |-> None]

\* The futures of one thread pool, in the order of their submission.
TasksOf(executor) == {t \in 1..Len(tasks) : tasks[t].executor = executor}

\* Line 46: status == False, where status is a Future.  Future defines no __eq__:
\* Python compares the identities, and no Future is the object False.
Equal(future, value) == FALSE

\* Line 44: executor.shutdown() with its default wait=True returns when every
\* future of the pool is done.
shutdown_NoWait(executor) == TRUE
shutdown(executor) == \A t \in TasksOf(executor) : tasks[t].result # None

\* Lines 29-30: multithread_write is entered.
multithread_write(image_list, path, file_names, offset, site) ==
    [executor |-> call.executor + 1, image_list |-> image_list, path |-> path,
     file_names |-> file_names, idx_offset |-> offset, index |-> 0, site |-> site]

\* Lines 63-92: one view is rendered and its images join the batch.
RenderView ==
    /\ pc = "loop"
    /\ view_idx + 1 < Len(args.views)
    /\ LET i == view_idx + 1
           view == args.views[i + 1]
           with_gt == args.name \in {"train", "test"}
           named == with_gt /\ args.cam_type # "PanopticSports"
                       /\ view.original_image # None
           gt == IF args.cam_type # "PanopticSports"
                 THEN (IF view.original_image # None THEN view.original_image[1] ELSE None)
                 ELSE view.image
       IN  /\ view_idx' = i
           /\ render_list' = Append(render_list, rendering(i))
           /\ file_path_list' = IF named THEN Append(file_path_list, view.image_name)
                                ELSE file_path_list
           /\ gt_list' = IF with_gt THEN Append(gt_list, gt) ELSE gt_list
           /\ pc' = IF Len(render_list) + 1 >= args.batch_size THEN "batch" ELSE "loop"
    /\ UNCHANGED <<load_rest, args, err, writes, idx_offset, call, tasks, disk, driver_vars>>

\* Lines 113-115: the video of the split, and render_set returns.
WithVideo(d) ==
    IF args.generate_mp4 THEN Put(d, video_rgb, render_images) ELSE d

\* Lines 104-107 (and 113-115 when no batch is left): the loop is over.  time1
\* is bound by the first view only.
LoopEnd ==
    /\ pc = "loop"
    /\ view_idx + 1 = Len(args.views)
    /\ IF view_idx = -1
       THEN pc' = "failed" /\ err' = "UnboundLocalError" /\ disk' = disk
       ELSE IF Len(render_list) > 0
            THEN pc' = "final" /\ err' = err /\ disk' = disk
            ELSE pc' = "returned" /\ err' = err /\ disk' = WithVideo(disk)
    /\ UNCHANGED <<load_rest, args, writes, view_idx, render_list, gt_list, file_path_list,
                   idx_offset, call, tasks, driver_vars>>

\* Lines 93-96 and 108-111: the first multithread_write call of a batch, for
\* gt_list unless it is empty.
Flush ==
    /\ pc \in {"batch", "final"}
    /\ call' = IF gt_list # <<>>
               THEN multithread_write(gt_list, gts_path, file_path_list, idx_offset,
                                      IF pc = "batch" THEN 94 ELSE 109)
               ELSE multithread_write(render_list, render_path, file_path_list, idx_offset,
                                      IF pc = "batch" THEN 96 ELSE 111)
    /\ pc' = "submit"
    /\ UNCHANGED <<load_rest, args, err, writes, view_idx, render_list, gt_list,
                   file_path_list, idx_offset, tasks, disk, driver_vars>>

\* Lines 42-43: one image is submitted to the pool.
Submit ==
    /\ pc = "submit"
    /\ call.index < Len(call.image_list)
    /\ IF Len(call.file_names) > 0 /\ call.index >= Len(call.file_names)
       THEN /\ pc' = "failed"
            /\ err' = "IndexError"
            /\ UNCHANGED <<call, tasks>>
       ELSE /\ tasks' = Append(tasks, Future(call, call.index))
            /\ call' = [call EXCEPT !.index = @ + 1]
            /\ UNCHANGED <<pc, err>>
    /\ UNCHANGED <<load_rest, args, writes, view_idx, render_list, gt_list, file_path_list,
                   idx_offset, disk, driver_vars>>

\* Lines 31-39, on a thread of the pool: write_image runs for one future.
write_image(t) ==
    /\ tasks[t].result = None
    /\ LET task == tasks[t]
           file == ImageFile(task.count, task.path, task.file_name)
       IN  \E saved \in Saved(task.image) :
              /\ disk' = IF saved THEN Put(disk, file, task.image) ELSE disk
              /\ tasks' = [tasks EXCEPT ![t].result = Some(<<task.count, saved>>)]
              /\ writes' = writes \cup {[file |-> file, image |-> task.image,
                                         thread |-> "worker", saved |-> saved]}
    /\ UNCHANGED <<load_rest, pc, args, err, view_idx, render_list, gt_list, file_path_list,
                   idx_offset, call, driver_vars>>

\* Line 44: every image is submitted and executor.shutdown() returns.
Shutdown ==
    /\ pc = "submit"
    /\ call.index = Len(call.image_list)
    /\ shutdown(call.executor)
    /\ pc' = "check"
    /\ call' = [call EXCEPT !.index = 0]
    /\ UNCHANGED <<load_rest, args, err, writes, view_idx, render_list, gt_list,
                   file_path_list, idx_offset, tasks, disk, driver_vars>>

\* Lines 45-47: one future is compared with False, and its image is written
\* by the main thread when the comparison holds.
CheckStatus ==
    /\ pc = "check"
    /\ call.index < Len(call.image_list)
    /\ LET t == CHOOSE t \in TasksOf(call.executor) : tasks[t].index = call.index
           status == tasks[t]
       IN  IF Equal(status, FALSE)
           THEN IF Len(call.file_names) = 0
                THEN /\ pc' = "failed"
                     /\ err' = "IndexError"
                     /\ UNCHANGED <<call, disk, writes>>
                ELSE LET file == ImageFile(status.count, call.path,
                                           Some(call.file_names[call.index + 1]))
                     IN  \E saved \in Saved(status.image) :
                            /\ disk' = IF saved THEN Put(disk, file, status.image)
                                       ELSE disk
                            /\ writes' = writes \cup
                                             {[file |-> file, image |-> status.image,
                                               thread |-> "main", saved |-> saved]}
                            /\ call' = [call EXCEPT !.index = @ + 1]
                            /\ UNCHANGED <<pc, err>>
           ELSE /\ call' = [call EXCEPT !.index = @ + 1]
                /\ UNCHANGED <<pc, err, disk, writes>>
    /\ UNCHANGED <<load_rest, args, view_idx, render_list, gt_list, file_path_list,
                   idx_offset, tasks, driver_vars>>

\* multithread_write returns to its call site: to line 96 or 111 (the call for
\* render_list follows the one for gt_list), to lines 98-101 (the batch is
\* dropped), or to lines 113-115 (render_set returns).
Return ==
    /\ pc = "check"
    /\ call.index = Len(call.image_list)
    /\ IF call.site \in {94, 109}
       THEN /\ call' = multithread_write(render_list, render_path, file_path_list,
                                         idx_offset, IF call.site = 94 THEN 96 ELSE 111)
            /\ pc' = "submit"
            /\ UNCHANGED <<render_list, gt_list, file_path_list, idx_offset, disk>>
       ELSE IF call.site = 96
            THEN /\ idx_offset' = view_idx
                 /\ file_path_list' = <<>>
                 /\ gt_list' = <<>>
                 /\ render_list' = <<>>
                 /\ pc' = "loop"
                 /\ UNCHANGED <<call, disk>>
            ELSE /\ disk' = WithVideo(disk)
                 /\ pc' = "returned"
                 /\ UNCHANGED <<call, render_list, gt_list, file_path_list, idx_offset>>
    /\ UNCHANGED <<load_rest, args, err, writes, view_idx, tasks, driver_vars>>

\* render_sets, lines 128-132: one render_set call on a fresh model path.
InitRender ==
    /\ NoLoad
    /\ NoRender
    /\ NoDriver
    /\ pc = "loop"
    /\ err = "none"
    /\ writes = {}
    /\ \E name \in {"train", "test", "video"}, cam_type \in CamTypes,
          batch_size \in 1..MaxBatchSize, generate_mp4 \in BOOLEAN :
          \E views \in Views(cam_type) :
             /\ name = "video" => generate_mp4
             /\ args = [name |-> name, views |-> views, cam_type |-> cam_type,
                        batch_size |-> batch_size, generate_mp4 |-> generate_mp4]

NextRender ==
    \/ RenderView
    \/ LoopEnd
    \/ Flush
    \/ Submit
    \/ \E t \in 1..Len(tasks) : write_image(t)
    \/ Shutdown
    \/ CheckStatus
    \/ Return

SpecRender == InitRender /\ [][NextRender]_vars

(***************************************************************************)
(* batch_train.py: the driver trains and renders the sequences of ./data,  *)
(* one os.system command at a time.  pc is the position of the driver:     *)
(* "start" (line 30), "train" (line 38), "render" (line 42), "training"    *)
(* and "rendering" while os.system runs the command, "done" after the      *)
(* loop, "failed" when an exception has left the script.                   *)
(***************************************************************************)
MaxEntries == 6        \* entries of ./data: 0..MaxEntries
MaxSequences == 5      \* line 30: [:5]

\* The contents of ./data: n entries in the order os.listdir lists them.  A
\* name is a number, the rank of the name among all names in string order;
\* cam00 is the number of files of <name>/frames_1/cam00, None when that
\* directory cannot be listed.
DataDirs ==
    UNION { { [k \in 1..n |->
                 LET name == CASE order = "asc" -> k
                               [] order = "desc" -> n + 1 - k
                               [] order = "rotated" -> (k % n) + 1
                 IN  [name |-> name,
                      cam00 |-> IF listable[name] THEN Some(name) ELSE None]]
              : order \in {"asc", "desc", "rotated"}, listable \in [1..n -> BOOLEAN] }
            : n \in 0..MaxEntries }

\* os.listdir("./data")
listdir(d) == [k \in 1..Len(d) |-> d[k].name]

\* sorted(...) of a list of names without duplicates
sorted_names(s) ==
    LET at(k) == CHOOSE j \in DOMAIN s : Cardinality({i \in DOMAIN s : s[i] <= s[j]}) = k
    IN  [k \in DOMAIN s |-> s[at(k)]]

\* Line 30: [:5]
FirstFive_All(s) == s
FirstFive(s) == SubSeq(s, 1, IF Len(s) < MaxSequences THEN Len(s) ELSE MaxSequences)

\* Lines 7 and 18: os.listdir(os.path.join("./data", name, "frames_1", "cam00"))
cam00(name) == (CHOOSE entry \in Range(data) : entry.name = name).cam00

\* Lines 10-13 and 21-24: the command handed to os.system; status is None
\* while it runs.
Command(script, name, num_frames) ==
    [script |-> script, name |-> name, num_t |-> num_frames, exp_tag |-> args.exp_tag,
     status |-> None]

\* The exit statuses os.system returns: 0, or the status of a failed command.
ExitStatuses == {0, 1}

\* Line 37: the loop takes the sequence after this one, or ends.
NextSequence(pos) ==
    IF pos < Len(sequences)
    THEN pc' = "train" /\ sequence' = Some(sequences[pos + 1])
    ELSE pc' = "done" /\ sequence' = sequence

\* The place of the loop variable in sequences.
Position == CHOOSE k \in 1..Len(sequences) : sequences[k] = sequence[1]

\* Lines 30-37: the sequences are listed and the loop starts.
Start ==
    /\ pc = "start"
    /\ sequences' = FirstFive(sorted_names(listdir(data)))
    /\ IF Len(sequences') > 0
       THEN pc' = "train" /\ sequence' = Some(sequences'[1])
       ELSE pc' = "done" /\ sequence' = sequence
    /\ UNCHANGED <<load_rest, args, err, writes, render_vars, data, commands>>

\* Lines 38-39 and 6-13: train_sequence counts the frames and starts the train
\* command, unless --skip_train.
train_sequence ==
    /\ pc = "train"
    /\ IF args.skip_train
       THEN pc' = "render" /\ UNCHANGED <<err, commands>>
       ELSE IF cam00(sequence[1]) = None
            THEN pc' = "failed" /\ err' = "FileNotFoundError" /\ UNCHANGED commands
            ELSE /\ commands' = Append(commands, Command("train.py", sequence[1],
                                                         cam00(sequence[1])[1]))
                 /\ pc' = "training"
                 /\ UNCHANGED err
    /\ UNCHANGED <<load_rest, args, writes, render_vars, data, sequences, sequence>>

\* Lines 42-43 and 17-24: render_sequence counts the frames and starts the
\* render command, unless --skip_render.
render_sequence ==
    /\ pc = "render"
    /\ IF args.skip_render
       THEN NextSequence(Position) /\ UNCHANGED <<err, commands>>
       ELSE IF cam00(sequence[1]) = None
            THEN /\ pc' = "failed"
                 /\ err' = "FileNotFoundError"
                 /\ UNCHANGED <<commands, sequence>>
            ELSE /\ commands' = Append(commands, Command("render.py", sequence[1],
                                                         cam00(sequence[1])[1]))
                 /\ pc' = "rendering"
                 /\ UNCHANGED <<err, sequence>>
    /\ UNCHANGED <<load_rest, args, writes, render_vars, data, sequences>>

\* Lines 10-15 and 21-26: os.system returns the exit status of the command; it
\* raises nothing for a command that fails, and the status is dropped.
system ==
    /\ pc \in {"training", "rendering"}
    /\ \E status \in ExitStatuses :
          commands' = [commands EXCEPT ![Len(commands)].status = Some(status)]
    /\ IF pc = "training"
       THEN pc' = "render" /\ sequence' = sequence
       ELSE NextSequence(Position)
    /\ UNCHANGED <<load_rest, args, err, writes, render_vars, data, sequences>>

InitDriver ==
    /\ NoLoad
    /\ NoRender
    /\ pc = "start"
    /\ err = "none"
    /\ writes = <<>>
    /\ \E skip_train, skip_render \in BOOLEAN :
          args = [skip_train |-> skip_train, skip_render |-> skip_render, exp_tag |-> ""]
    /\ data \in DataDirs
    /\ sequences = <<>>
    /\ sequence = None
    /\ commands = <<>>

NextDriver ==
    \/ Start
    \/ train_sequence
    \/ render_sequence
    \/ system

SpecDriver == InitDriver /\ [][NextDriver]_vars

(***************************************************************************)
(* Claims about the reconstructed-scene reader's hold-out split.           *)
(***************************************************************************)
Colmap == reader = "readColmapSceneInfo"

\* The reader has split a non-empty camera list with evaluation mode on.
ColmapEvalSplit == Colmap /\ args.eval /\ cams.cam_infos # <<>>

Count(s, c) == Cardinality({i \in DOMAIN s : s[i] = c})

\* train and test together hold every camera exactly once and share none
IsPartition(all, train, test) ==
    /\ Len(train) + Len(test) = Len(all)
    /\ \A c \in Range(all) : Count(train, c) + Count(test, c) = Count(all, c)
    /\ Range(train) \cap Range(test) = {}

Floor(n, d) == n \div d
Ceil(n, d) == (n + d - 1) \div d

\* C1 as stated: with evaluation mode on, for n >= 1 cameras and stride N >= 1,
\* train and test partition the cameras and the test set has floor(n / N) cameras.
C1_SplitFloor ==
    ColmapEvalSplit =>
        /\ IsPartition(cams.cam_infos, cams.train_cam_infos, cams.test_cam_infos)
        /\ Len(cams.test_cam_infos) = Floor(Len(cams.cam_infos), args.llffhold)

\* C1 as amended: with evaluation mode on, for n >= 1 cameras and stride N >= 1,
\* train and test partition the cameras and the test set has ceil(n / N) cameras
\* (positions 0, N, 2N, ... below n), which is floor(n / N) when N divides n.
C1_SplitCeil ==
    ColmapEvalSplit =>
        /\ IsPartition(cams.cam_infos, cams.train_cam_infos, cams.test_cam_infos)
        /\ Len(cams.test_cam_infos) = Ceil(Len(cams.cam_infos), args.llffhold)
        /\ (Len(cams.cam_infos) % args.llffhold = 0 =>
               Len(cams.test_cam_infos) = Floor(Len(cams.cam_infos), args.llffhold))
        /\ (pc = "returned" =>
               /\ scene_info.train_cameras = cams.train_cam_infos
               /\ scene_info.test_cameras = cams.test_cam_infos)

\* A returned scene of 3 cameras at stride 2: 2 test cameras, floor(3 / 2) = 1.
C1_Witness ==
    /\ ColmapEvalSplit
    /\ pc = "returned"
    /\ Len(cams.cam_infos) = 3
    /\ args.llffhold = 2
    /\ Len(scene_info.test_cameras) = 2

\* C2: with evaluation mode on and stride N, the test cameras are the cameras at
\* positions 0, N, 2N, ... of the list sorted by image name and the train cameras
\* are the others in the same order; 16 cameras at stride 8 give test positions
\* {0, 8} and 14 train cameras.
C2_StridePositions ==
    ColmapEvalSplit =>
        LET all == cams.cam_infos
            train == cams.train_cam_infos
            test == cams.test_cam_infos
            n == Len(all)
            N == args.llffhold
        IN  /\ n = Len(input.cam_extrinsics)
            /\ \A i, j \in 1..n : i < j => all[i].image_name <= all[j].image_name
            /\ \A e \in Range(input.cam_extrinsics) :
                  Cardinality({i \in 1..n : all[i].image_path = e.name}) = 1
            /\ \A p \in 0..(n - 1) :
                  IF p % N = 0
                  THEN /\ (p \div N) + 1 <= Len(test)
                       /\ test[(p \div N) + 1] = all[p + 1]
                  ELSE /\ p - (p \div N) <= Len(train)
                       /\ train[p - (p \div N)] = all[p + 1]
            /\ Len(train) + Len(test) = n
            /\ (n = 16 /\ N = 8 =>
                   /\ test = <<all[1], all[9]>>
                   /\ Len(train) = 14)
            /\ (pc = "returned" =>
                   /\ scene_info.train_cameras = train
                   /\ scene_info.test_cameras = test)

\* The scenario: 16 cameras, stride 8, returned.
C2_Witness ==
    /\ ColmapEvalSplit
    /\ pc = "returned"
    /\ Len(cams.cam_infos) = 16
    /\ args.llffhold = 8
    /\ Len(scene_info.test_cameras) = 2
    /\ Len(scene_info.train_cameras) = 14

\* A capture whose images enumerate in descending name order was split.
C2_WitnessSorted ==
    /\ ColmapEvalSplit
    /\ pc = "returned"
    /\ Len(input.cam_extrinsics) = 4
    /\ input.cam_extrinsics[1].name[1] = 4

(***************************************************************************)
(* Claims about evaluation mode off and about the time mapper.             *)
(***************************************************************************)
Blender == reader = "readNerfSyntheticInfo"

\* C3: with evaluation mode off no camera is held out: the reconstructed-scene
\* reader returns every camera in train_cameras and no test camera, and the
\* synthetic-transforms reader returns the cameras of transforms_train.json
\* followed by those of transforms_test.json in train_cameras and no test camera.
C3_EvalOffHoldsNothingOut ==
    (pc = "returned" /\ (Colmap \/ Blender) /\ ~args.eval) =>
        /\ scene_info.test_cameras = <<>>
        /\ Colmap =>
              /\ Len(scene_info.train_cameras) = Len(input.cam_extrinsics)
              /\ \A e \in Range(input.cam_extrinsics) :
                    Cardinality({i \in DOMAIN scene_info.train_cameras :
                                    scene_info.train_cameras[i].image_path = e.name}) = 1
        /\ Blender =>
              LET nt == Len(input.train_frames)
              IN  /\ Len(scene_info.train_cameras) = nt + Len(input.test_frames)
                  /\ \A i \in DOMAIN input.train_frames :
                        scene_info.train_cameras[i].image_path =
                            input.train_frames[i].file_path
                  /\ \A j \in DOMAIN input.test_frames :
                        scene_info.train_cameras[nt + j].image_path =
                            input.test_frames[j].file_path

\* A synthetic scene of 2 train frames and 2 test frames returned without evaluation.
C3_Witness ==
    /\ pc = "returned"
    /\ Blender
    /\ ~args.eval
    /\ Len(input.train_frames) = 2
    /\ Len(input.test_frames) = 2
    /\ Len(scene_info.train_cameras) = 4

\* The reader has built the time mapper.
BlenderMapped == Blender /\ pc \in {"transforms", "returned"}

RawTimesOf(frames) == {frames[i].time : i \in DOMAIN frames}
AllRawTimes == RawTimesOf(input.train_frames) \cup RawTimesOf(input.test_frames)
MaxOf(S) == CHOOSE x \in S : \A y \in S : y <= x
MinOf(S) == CHOOSE x \in S : \A y \in S : x <= y

\* q is the quotient t / d
IsQuotient(q, t, d) == q.den > 0 /\ q.num * d = t * q.den

\* The mapper has an entry per raw time of train+test and maps t to t / max.
MapsToTimeOverMax ==
    /\ DOMAIN input.timestamp_mapper = AllRawTimes
    /\ \A t \in AllRawTimes :
          IsQuotient(input.timestamp_mapper[t], t, MaxOf(AllRawTimes))
    /\ input.max_time = MaxOf(AllRawTimes)
    /\ \A i \in DOMAIN cams.cam_infos :
          \E f \in Range(input.train_frames) \cup Range(input.test_frames) :
              /\ f.file_path = cams.cam_infos[i].image_path
              /\ cams.cam_infos[i].time = input.timestamp_mapper[f.time]

\* The largest normalized time is 1.0 and the smallest is min / max.
NormalizedRange ==
    LET mapper == input.timestamp_mapper
    IN  /\ \E t \in AllRawTimes : mapper[t] = One
        /\ \A t \in AllRawTimes : FracLeq(mapper[t], One)
        /\ \E t \in AllRawTimes :
              /\ IsQuotient(mapper[t], MinOf(AllRawTimes), MaxOf(AllRawTimes))
              /\ \A u \in AllRawTimes : FracLeq(mapper[t], mapper[u])

\* Train times {0.0, 0.5, 1.0} and test times {0.25, 0.75}, in quarters
C7_Scenario ==
    /\ RawTimesOf(input.train_frames) = {0, 2, 4}
    /\ RawTimesOf(input.test_frames) = {1, 3}

MultipleView == reader = "readMultipleViewinfos"
Brics == reader = "readBricsSceneInfo"

\* C4: every SceneInfo a reader returns has a populated point cloud, also when
\* the read of the cached point-cloud file fails.
C4_PointCloudPopulated ==
    pc = "returned" => scene_info.point_cloud # None

\* C5, for the readers that build their video cameras in this file: every
\* SceneInfo returned has a non-empty video_cameras sequence, for every option
\* combination (the multi-rig reader with create_video_cams = False included).
C5_VideoCamerasNonEmpty ==
    (pc = "returned" /\ (Colmap \/ Blender \/ Brics)) =>
        scene_info.video_cameras # <<>>

InUnitInterval(q) == 0 <= q.num /\ q.num <= q.den

TimesInUnitInterval(cameras) ==
    \A i \in DOMAIN cameras : InUnitInterval(cameras[i].time)

\* C6, for the multi-rig reader: in every SceneInfo returned, every camera of
\* train_cameras, test_cameras and video_cameras has a time in [0, 1], for any
\* num_t >= 1.
C6_BricsTimesInUnitInterval ==
    (pc = "returned" /\ Brics /\ args.num_t >= 1) =>
        /\ TimesInUnitInterval(scene_info.train_cameras)
        /\ TimesInUnitInterval(scene_info.test_cameras)
        /\ TimesInUnitInterval(scene_info.video_cameras)

(***************************************************************************)
(* Claims about the cached point-cloud file.                               *)
(***************************************************************************)
\* The step of a load converts the sparse points into the cached file.
Converts == stores' # stores

\* C11: over any sequence of loads of one scene directory the sparse points are
\* converted into the cached point-cloud file at most once, by a load that finds
\* no cached file; every load that finds the cached file converts nothing, leaves
\* the file as it is, and reads it before it returns.
C11_ConvertedOnce ==
    [][ /\ Converts =>
              /\ ~ply_file.exists
              /\ stores = 0 /\ stores' = 1
              /\ ply_file'.exists /\ ply_file'.valid
        /\ ply_file.exists => (ply_file' = ply_file /\ ~Converts)
        /\ (pc = "fetch" /\ pc' = "returned") =>
              /\ reads'[Len(reads')].file = scene_info'.ply_path
              /\ (writes = <<>> => ply_file.exists /\ ply_file' = ply_file)
      ]_vars

\* A later load of a directory converted by an earlier load has returned: it
\* wrote nothing and its point cloud is what the cached file holds.
C11_Witness ==
    /\ Colmap
    /\ pc = "returned"
    /\ stores = 1
    /\ writes = <<>>
    /\ scene_info.point_cloud = Some(fetchPly(ply_file))

\* The conversion of the capture's sparse points
Conversion == storePly(input.points3D.xyz, input.points3D.rgb)

\* C12: when two processes load one reconstructed-scene directory concurrently
\* and no cached file exists yet, then in every interleaving of their existence
\* checks, conversion writes and reads every load that completes has the point
\* cloud of the conversion of the source points, and once both are done the
\* cached file holds exactly that conversion.
C12_ConcurrentLoadsPopulated ==
    /\ \A p \in Procs :
          pc[p] = "returned" => scene_info[p].point_cloud = Some(fetchPly(Conversion))
    /\ (\A p \in Procs : pc[p] = "returned") => ply_file = Conversion

\* as many ids as cameras
DistinctIds(cameras) ==
    Cardinality({cameras[i].uid : i \in DOMAIN cameras}) = Len(cameras)

\* C15: within every camera sequence of a returned SceneInfo (train, test,
\* video) the camera records' ids are pairwise distinct, also for the
\* reconstructed-scene reader when several images refer to one COLMAP camera id
\* and for the synthetic-transforms reader with evaluation off.
C15_DistinctIds ==
    (pc = "returned" /\ (Colmap \/ Blender \/ Brics)) =>
        /\ DistinctIds(scene_info.train_cameras)
        /\ DistinctIds(scene_info.test_cameras)
        /\ DistinctIds(scene_info.video_cameras)

\* The times of the cameras a reader has read from the capture
CaptureTimes ==
    {cams.train_cam_infos[i].time : i \in DOMAIN cams.train_cam_infos}
        \cup {cams.test_cam_infos[i].time : i \in DOMAIN cams.test_cam_infos}

LargestTime(S) == CHOOSE x \in S : \A y \in S : FracLeq(y, x)

\* C16: the maxtime of every returned SceneInfo is the maximum timestamp of the
\* capture loaded: for the synthetic-transforms reader the largest raw frame
\* time, for the multi-rig reader the largest per-frame time index among its
\* cameras for the given num_t, and for the reconstructed-scene reader the
\* largest camera time.
C16_MaxtimeIsLargestTime ==
    /\ (pc = "returned" /\ Blender) => scene_info.maxtime = Div(MaxOf(AllRawTimes), 1)
    /\ (pc = "returned" /\ Brics) =>
          /\ scene_info.maxtime = Div(args.num_t - 1, 1)
          /\ scene_info.maxtime = LargestTime(CaptureTimes)
    /\ (pc = "returned" /\ Colmap) => scene_info.maxtime = LargestTime(CaptureTimes)

\* The load has stored the sparse points and loaded the file it stored.
RoundTrip ==
    /\ Colmap \/ MultipleView
    /\ pc = "returned"
    /\ "points3D" \in DOMAIN input

\* C17: loading the file written by save, for N positions and N colors, yields a
\* point cloud of exactly N points whose positions are the saved positions as
\* 32-bit floats, whose normals are all zero and whose colors are the saved
\* 0-255-scaled colors divided by 255.
C17_StoreFetchRoundTrip ==
    RoundTrip =>
        LET xyz == input.points3D.xyz
            rgb == input.points3D.rgb
            pcd == scene_info.point_cloud[1]
        IN  /\ scene_info.point_cloud # None
            /\ Len(pcd.points) = Len(xyz)
            /\ Len(pcd.colors) = Len(xyz)
            /\ Len(pcd.normals) = Len(xyz)
            /\ \A i \in DOMAIN xyz :
                  /\ pcd.points[i] = <<f4(xyz[i][1]), f4(xyz[i][2]), f4(xyz[i][3])>>
                  /\ pcd.normals[i] = <<0, 0, 0>>
                  /\ pcd.colors[i] = <<Div(rgb[i][1], 255), Div(rgb[i][2], 255),
                                       Div(rgb[i][3], 255)>>

\* Two points went through the store, one with coordinates that are no 32-bit
\* floats: 2^24 + 1 came back as 2^24, and the color byte 128 as 128/255.
C17_Witness ==
    /\ RoundTrip
    /\ Len(input.points3D.xyz) = 2
    /\ input.points3D.xyz[2][2] = F4Exact + 1
    /\ scene_info.point_cloud[1].points[2][2] = F4Exact
    /\ scene_info.point_cloud[1].colors[1][2] = [num |-> 128, den |-> 255]

(***************************************************************************)
(* Claims about the order in which the parser lists the images.            *)
(***************************************************************************)
\* The same images, enumerated backwards
Reversed(cam_extrinsics) ==
    [i \in DOMAIN cam_extrinsics |-> cam_extrinsics[Len(cam_extrinsics) + 1 - i]]

\* The cameras of a load of the same capture whose parser lists the images
\* backwards, sorted by image name
OtherLoad ==
    sorted(readColmapCameras(Reversed(input.cam_extrinsics), input.cam_intrinsics).value)

\* C18: two loads of one capture by the reconstructed-scene reader whose
\* image-id to extrinsics mappings enumerate the same images in different orders
\* return the same train sequence and the same test sequence, with the same
\* normalized time on each camera.
C18_ParserOrderIndependent ==
    (Colmap /\ pc = "returned") =>
        /\ scene_info.train_cameras = TrainSplit(OtherLoad, args.eval, args.llffhold)
        /\ scene_info.test_cameras = TestSplit(OtherLoad, args.eval, args.llffhold)

(***************************************************************************)
(* Claims about the failures of a load.                                    *)
(***************************************************************************)
BinaryFiles == {"images.bin", "cameras.bin"}
TextFiles == {"images.txt", "cameras.txt"}

\* The reader has called the COLMAP parsers.
ParsersCalled == (Colmap \/ MultipleView) /\ reads # <<>>

\* Both files of one format were parsed.
Parsed(files) ==
    \A f \in files : \E i \in DOMAIN reads : reads[i] = Read(f, TRUE)

\* C8: a reader of COLMAP camera/image files tries the binary files first and
\* reads the text files only after a binary file was absent or unreadable; when
\* neither the binary nor the text files can be read the load fails with
\* MissingReconstructionError and returns no SceneInfo.
C8_BinaryFirstTextFallback ==
    ParsersCalled =>
        /\ reads[1].file = "images.bin"
        /\ \A i \in DOMAIN reads :
              reads[i].file \in TextFiles =>
                  \E j \in 1..(i - 1) : reads[j].file \in BinaryFiles /\ ~reads[j].ok
        /\ Parsed(BinaryFiles) => \A i \in DOMAIN reads : reads[i].file \notin TextFiles
        /\ (Parsed(BinaryFiles) \/ Parsed(TextFiles)) => input # NoInput
        /\ (~Parsed(BinaryFiles) /\ ~Parsed(TextFiles)) =>
              /\ pc = "failed"
              /\ err = MissingReconstructionError
              /\ input = NoInput
              /\ scene_info = NoScene

\* A scene returned from the text files after images.bin could not be read.
C8_Witness ==
    /\ Colmap
    /\ pc = "returned"
    /\ reads[1] = Read("images.bin", FALSE)
    /\ Parsed(TextFiles)
    /\ Len(scene_info.train_cameras) = 2

\* A load that failed with neither format readable.
C8_WitnessNeither ==
    /\ Colmap
    /\ pc = "failed"
    /\ reads = <<Read("images.bin", FALSE), Read("images.txt", FALSE)>>
    /\ err = MissingReconstructionError

SupportedModels == {"SIMPLE_PINHOLE", "SIMPLE_RADIAL", "PINHOLE", "OPENCV"}

\* The exception of the assert False of readColmapCameras
UnsupportedCameraModelError == "AssertionError"

\* readColmapCameras has run on the parsed reconstruction.
ColmapCamerasBuilt == Colmap /\ input # NoInput /\ pc \notin {"call", "cameras"}

\* The models of the cameras the images refer to
ModelsInUse ==
    { input.cam_intrinsics[input.cam_extrinsics[i].camera_id].model :
          i \in DOMAIN input.cam_extrinsics }

C9_WitnessAccepted ==
    /\ ColmapCamerasBuilt
    /\ pc = "returned"
    /\ ModelsInUse = {"OPENCV"}
    /\ Len(scene_info.train_cameras) = 3

\* The exception of np.hstack on the empty list of camera centers
InvalidGeometryError == "ValueError"

\* The reconstructed-scene reader has handed its train cameras to getNerfppNorm.
ColmapNormalized == ColmapCamerasBuilt /\ ModelsInUse \subseteq SupportedModels

\* The multi-rig reader has handed its train cameras to getNerfppNorm.
BricsNormalized ==
    /\ Brics
    /\ pc \in {"returned", "failed"}
    /\ "hits" \in DOMAIN input
    /\ err # "KeyError"

\* C13: when the camera set handed to scene normalization is empty (a
\* reconstructed-scene load with evaluation on whose cameras all fall in the test
\* split, as with a single camera or stride 1, or a load without cameras), the
\* load fails with InvalidGeometryError and no SceneInfo is returned; a
\* non-empty set does not fail so.
C13_EmptyCameraSetFails ==
    (ColmapNormalized \/ BricsNormalized) =>
        IF cams.train_cam_infos = <<>>
        THEN /\ pc = "failed"
             /\ err = InvalidGeometryError
             /\ scene_info = NoScene
        ELSE err # InvalidGeometryError

\* Three cameras at stride 1 with evaluation on: all are test cameras.
C13_Witness ==
    /\ ColmapNormalized
    /\ args.eval
    /\ args.llffhold = 1
    /\ Len(cams.test_cam_infos) = 3
    /\ cams.train_cam_infos = <<>>
    /\ pc = "failed"
    /\ err = InvalidGeometryError

\* The multi-rig reader has carved the hull.
BricsCarved == Brics /\ pc \in {"returned", "failed"} /\ "hits" \in DOMAIN input

\* The grid points the carving has kept
HullPoints == HullCarve(cams.train_cam_infos, input.hits)

\* C14: in the multi-rig reader loading at least one frame per camera, when hull
\* carving keeps no grid point the reader
\* raises InvalidGeometryError, and neither writes a point-cloud file nor returns
\* a SceneInfo with a 0-point cloud.
C14_EmptyHullRaises ==
    (BricsCarved /\ args.num_t >= 1 /\ HullPoints = <<>>) =>
        /\ pc = "failed"
        /\ err = InvalidGeometryError
        /\ "tmp.ply" \notin Range(writes)
        /\ scene_info = NoScene

(***************************************************************************)
(* Claims about the multi-rig reader's hull and preview path.              *)
(***************************************************************************)
\* The train cameras of the rig whose first-frame mask the grid point v projects
\* into
SeenBy(v) == input.hits[v] \cap Range(input.train_rig)

PingPong(n, k) == IF k < n THEN k ELSE 2 * n - 1 - k

\* The time index of the video camera at position i, i counted from 0
VideoTime(i) == scene_info.video_cameras[i + 1].time

\* C20: in the multi-rig preview path, for num_t >= 1 the i-th video camera has
\* the time index s[i mod (2 * num_t)] with s = 0, 1, ..., num_t-1, num_t-1,
\* ..., 1, 0: every time index lies in 0..num_t-1 and the time indices of
\* consecutive video cameras differ by at most 1.
C20_VideoTimesPingPong ==
    (Brics /\ pc = "returned" /\ args.create_video_cams /\ args.num_t >= 1) =>
        LET n == Len(scene_info.video_cameras)
        IN  /\ n > 0
            /\ \A i \in 0..(n - 1) :
                  /\ VideoTime(i) = Div(PingPong(args.num_t, i % (2 * args.num_t)), 1)
                  /\ VideoTime(i).num \in 0..(args.num_t - 1)
            /\ \A i \in 0..(n - 2) :
                  Abs(VideoTime(i + 1).num - VideoTime(i).num) <= 1

\* Three frames per camera: the preview runs 0, 1, 2, 2, 1, 0, 0, 1, ...
C20_Witness ==
    /\ Brics
    /\ pc = "returned"
    /\ args.create_video_cams
    /\ args.num_t = 3
    /\ Len(scene_info.video_cameras) = n_interp * (Len(vis_cam_order) - 1)
    /\ [i \in 0..7 |-> VideoTime(i).num] = [i \in 0..7 |-> <<0, 1, 2, 2, 1, 0, 0, 1>>[i + 1]]

\* The reader of each registered dataset type
OwnReader ==
    [k \in {"Colmap", "Blender", "dynerf", "nerfies", "PanopticSports", "MultipleView",
            "Brics"} |->
        CASE k = "Colmap" -> "readColmapSceneInfo"
          [] k = "Blender" -> "readNerfSyntheticInfo"
          [] k = "dynerf" -> "readdynerfInfo"
          [] k = "nerfies" -> "readHyperDataInfos"
          [] k = "PanopticSports" -> "readPanopticSportsinfos"
          [] k = "MultipleView" -> "readMultipleViewinfos"
          [] k = "Brics" -> "readBricsSceneInfo"]

\* The exception of a dict subscript with a key the dict does not hold
UnknownDatasetTypeError == "KeyError"

\* C10: the dispatcher maps each of the seven registered dataset-type identifiers
\* to its own reader, no two to the same; a lookup with an unregistered
\* identifier fails with UnknownDatasetTypeError, selects no reader and returns
\* nothing.
C10_DispatcherLookup ==
    pc # "idle" =>
        IF key \in DOMAIN OwnReader
        THEN /\ reader = OwnReader[key]
             /\ \A k \in DOMAIN OwnReader : OwnReader[k] = reader => k = key
             /\ (pc = "call" => err = "none")
             /\ (pc = "returned" => scene_info # NoScene)
        ELSE /\ pc = "failed"
             /\ err = UnknownDatasetTypeError
             /\ reader = "none"
             /\ scene_info = NoScene

\* A lookup with the identifier "colmap", which is not registered, has failed.
C10_Witness ==
    /\ key = "colmap"
    /\ pc = "failed"
    /\ err = UnknownDatasetTypeError

\* A scene of the multi-rig reader was returned for the identifier "Brics".
C10_WitnessRegistered ==
    /\ key = "Brics"
    /\ pc = "returned"
    /\ Brics

(***************************************************************************)
(* Claims about the files render_set writes.                               *)
(***************************************************************************)
\* The files of the renders directory.
RendersDir == {file \in DOMAIN disk : file[1] = render_path}

\* Every image was written by index: no call was given file names.
WrittenByIndex == \A t \in 1..Len(tasks) : tasks[t].file_name = None

\* Every write_image run saved its image.
AllSaved == \A w \in writes : w.saved

\* The file of the renders directory named with k as a 5-digit number.
NumberedRender(k) == Join(render_path, Format05d(k) \o ".png")

\* C21: when render_set writes by index (no file names, as for the video
\* split) and no write fails, then once render_set has returned the renders
\* directory holds exactly one file per view, the k-th view's rendering in the
\* file named with k as a 5-digit number, for every batch_size >= 1.
C21_OneFilePerView ==
    (pc = "returned" /\ args.batch_size >= 1 /\ WrittenByIndex /\ AllSaved)
        => /\ RendersDir = {NumberedRender(k) : k \in 0..(Len(args.views) - 1)}
           /\ \A k \in 0..(Len(args.views) - 1) : disk[NumberedRender(k)] = rendering(k)

(***************************************************************************)
(* Claims about multithread_write.                                         *)
(***************************************************************************)
\* The multithread_write call of this thread pool has returned.
Returned(executor) ==
    \/ executor < call.executor
    \/ executor = call.executor /\ pc \in {"loop", "batch", "final", "returned"}

\* The worker of this future reported a failed write: it returned (count, False).
ReportedFailure(task) == task.result # None /\ task.result[1][2] = FALSE

\* The image of this future was written again by the main thread.
WrittenAgain(task) ==
    \E w \in writes :
        /\ w.thread = "main"
        /\ w.image = task.image
        /\ w.file = ImageFile(task.count, task.path, task.file_name)

\* C22: once a multithread_write call has returned, every image whose worker
\* reported a failed write has been written again by the main thread, and no
\* image whose worker write succeeded has been written a second time.
C22_FailedWritesWrittenAgain ==
    \A t \in 1..Len(tasks) :
        Returned(tasks[t].executor)
            => (ReportedFailure(tasks[t]) <=> WrittenAgain(tasks[t]))

\* A multithread_write call is in progress.
InCall == pc \in {"submit", "check"}

\* The number of the view that produced image number k of the batch in hand.
ProducedBy(k) == view_idx - Len(render_list) + 1 + k

\* C23: in every multithread_write call render_set makes for the train or the
\* test split, the file-name list is empty or as long as the image list, and
\* file_names[k] is the image name of the view that produced image_list[k],
\* also when some views have no original image.
C23_FileNamesMatchImages ==
    (InCall /\ args.name \in {"train", "test"})
        => /\ Len(call.file_names) \in {0, Len(call.image_list)}
           /\ \A k \in 0..(Len(call.file_names) - 1) :
                 k < Len(call.image_list)
                    => call.file_names[k + 1] = args.views[ProducedBy(k) + 1].image_name

\* The write of this future has not finished: it waits for a worker or runs.
InFlight(task) == task.result = None

\* C24: multithread_write returns only after every write task it submitted has
\* finished: a write in flight belongs to the call in progress, never to a
\* call that has returned, so the writes of one call never run beside those
\* of a later call and none is in flight once render_set has returned.
C24_NoWriteOutlivesItsCall ==
    \A t \in 1..Len(tasks) : InFlight(tasks[t]) => ~Returned(tasks[t].executor)

\* A later call has writes in flight, after the calls of an earlier batch.
C24_Witness ==
    /\ pc = "submit"
    /\ call.site \in {96, 111}
    /\ \E t \in 1..Len(tasks) : InFlight(tasks[t])
    /\ \E t \in 1..Len(tasks) : call.executor - tasks[t].executor >= 2

(***************************************************************************)
(* Claims about the batch driver.                                          *)
(***************************************************************************)
\* The names of the entries of ./data.
DataNames == {data[k].name : k \in 1..Len(data)}

\* The sequences are the first five names of ./data in sorted order, or all
\* of them when there are fewer.
FirstFiveSorted ==
    /\ Len(sequences) = (IF Len(data) < 5 THEN Len(data) ELSE 5)
    /\ \A k \in 1..Len(sequences) : sequences[k] \in DataNames
    /\ \A j, k \in 1..Len(sequences) : j < k => sequences[j] < sequences[k]
    /\ \A name \in DataNames \ Range(sequences) :
          \A k \in 1..Len(sequences) : sequences[k] < name

\* The commands were issued one sequence after the other in the order of
\* sequences, for one sequence the train command before the render command,
\* none twice.
InSequenceOrder ==
    \A i, j \in 1..Len(commands) :
        i < j => \/ commands[i].name < commands[j].name
                 \/ /\ commands[i].name = commands[j].name
                    /\ commands[i].script = "train.py"
                    /\ commands[j].script = "render.py"

\* A command is started only when every command before it has returned.
OneAtATime ==
    \A i \in 1..Len(commands) : i < Len(commands) => commands[i].status # None

\* The command of this script for this sequence was issued.
Issued(script, name) ==
    \E i \in 1..Len(commands) : commands[i].script = script /\ commands[i].name = name

\* A command that returned a failure status.
Failed(i) == commands[i].status # None /\ commands[i].status[1] # 0

\* The driver stops only after the last sequence, with every command that was
\* not skipped issued for every sequence, or on a frames directory that cannot
\* be listed; never on the status of a command.
StopsOnlyAtTheEnd ==
    /\ pc = "done"
          => \A k \in 1..Len(sequences) :
                /\ ~args.skip_train => Issued("train.py", sequences[k])
                /\ ~args.skip_render => Issued("render.py", sequences[k])
    /\ pc = "failed" => err = "FileNotFoundError" /\ cam00(sequence[1]) = None
    /\ pc \notin {"done", "failed"} => ENABLED NextDriver

=============================================================================
